---- MODULE Spec2Model ----
(***************************************************************************)
(* Model of services/ml/main.py (MoodQuiz): the text -> music-mood         *)
(* inference handler infer_text, the lazily loaded GitLab VAD lexicon, the *)
(* greedy longest-phrase scan, the two mood projections and the blender.   *)
(*                                                                         *)
(* Representation.                                                         *)
(*  - A Python str is a sequence of one-character strings, so that strip,  *)
(*    lower, the [a-z']+ token regex and " ".join are computed, not        *)
(*    assumed.                                                             *)
(*  - Floats are exact fixed-point numbers.  A raw lexicon value x in      *)
(*    [-1,1] is the integer 100*x; a normalised VAD component is held in   *)
(*    units of 1/200 (NormScale); a probability in units of 1/10           *)
(*    (ProbScale); every value produced by round(.,4) is an integer number *)
(*    of 1e-4 (MoodScale).  Binary floating-point error is not modelled.   *)
(*  - Optional[X] is <<>> for None and <<x>> for a value, except the VAD   *)
(*    triple, where None is <<>> and a value is <<v,a,d>>.                 *)
(*  - infer_text is an `async def` without any await, so the event loop    *)
(*    runs one call to completion before the next starts: one call is in   *)
(*    flight at a time and pc is its position in the handler.              *)
(***************************************************************************)
EXTENDS Integers, Sequences, FiniteSets, TLC

\* ------------------------------------------------------------------------
\* Bounds of the model
\* ------------------------------------------------------------------------
MaxWords == 2
MaxScores == 2
MaxCalls == 2

\* ------------------------------------------------------------------------
\* Fixed-point scales
\* ------------------------------------------------------------------------
RawScale == 100
NormScale == 200
ProbScale == 10
MoodScale == 10000

\* ------------------------------------------------------------------------
\* Generic helpers
\* ------------------------------------------------------------------------
EmptyMap == [x \in {} |-> x]

Put(f, k, v) == [x \in (DOMAIN f) \cup {k} |-> IF x = k THEN v ELSE f[x]]

Min2(a, b) == IF a < b THEN a ELSE b

Max2(a, b) == IF a > b THEN a ELSE b

\* round(num/den, 4) of a non-negative rational already scaled to 1e-4 units:
\* nearest integer, ties to even (Python's round).
Round4(num, den) ==
    LET q == num \div den
        r == num % den
    IN  IF 2 * r < den THEN q
        ELSE IF 2 * r > den THEN q + 1
        ELSE IF q % 2 = 0 THEN q ELSE q + 1

\* ------------------------------------------------------------------------
\* Strings
\* ------------------------------------------------------------------------
Uppers == <<"A","B","C","D","E","F","G","H","I","J","K","L","M",
            "N","O","P","Q","R","S","T","U","V","W","X","Y","Z">>

Lowers == <<"a","b","c","d","e","f","g","h","i","j","k","l","m",
            "n","o","p","q","r","s","t","u","v","w","x","y","z">>

Whitespace == {" ", "\t", "\n"}

LowerChar(c) ==
    IF \E k \in 1..26 : Uppers[k] = c
    THEN Lowers[CHOOSE k \in 1..26 : Uppers[k] = c]
    ELSE c

\* str.lower()
Lower(s) == [k \in 1..Len(s) |-> LowerChar(s[k])]

\* str.strip()
RECURSIVE LStrip(_)
LStrip(s) ==
    IF s # <<>> /\ Head(s) \in Whitespace THEN LStrip(Tail(s)) ELSE s

RECURSIVE RStrip(_)
RStrip(s) ==
    IF s # <<>> /\ s[Len(s)] \in Whitespace
    THEN RStrip(SubSeq(s, 1, Len(s) - 1)) ELSE s

Strip(s) == RStrip(LStrip(s))

\* _word_re = [a-z']+
WordChar(c) == c = "'" \/ \E k \in 1..26 : Lowers[k] = c

\* _word_re.findall over s[k..]: cur is the run being read, acc the tokens
RECURSIVE FindAll(_, _, _, _)
FindAll(s, k, cur, acc) ==
    IF k > Len(s)
    THEN IF cur = <<>> THEN acc ELSE Append(acc, cur)
    ELSE IF WordChar(s[k])
         THEN FindAll(s, k + 1, Append(cur, s[k]), acc)
         ELSE FindAll(s, k + 1, <<>>,
                      IF cur = <<>> THEN acc ELSE Append(acc, cur))

tokenize(text) ==
    LET ws == FindAll(Lower(text), 1, <<>>, <<>>)
    IN  [k \in 1..Len(ws) |-> Lower(ws[k])]

\* " ".join(toks)
RECURSIVE Join(_)
Join(toks) ==
    IF toks = <<>> THEN <<>>
    ELSE IF Len(toks) = 1 THEN toks[1]
    ELSE toks[1] \o <<" ">> \o Join(Tail(toks))

\* ------------------------------------------------------------------------
\* Input domains
\* ------------------------------------------------------------------------
W_this == <<"t","h","i","s">>

W_is == <<"i","s">>

W_not == <<"n","o","t">>

W_good == <<"g","o","o","d">>

W_today == <<"t","o","d","a","y">>

SP == <<" ">>

Vocab == {W_not, W_good}

\* every text of at most k vocabulary words separated by single spaces
RECURSIVE WordTexts(_)
WordTexts(k) ==
    IF k = 0 THEN {<<>>}
    ELSE LET prev == WordTexts(k - 1)
         IN  prev \cup {IF t = <<>> THEN w ELSE t \o SP \o w :
                          t \in prev, w \in Vocab}

ExampleText == W_this \o SP \o W_is \o SP \o W_not \o SP \o W_good \o SP \o W_today

ExtraTexts ==
    { <<" ", "\t">>,
      <<"!", "!">>,
      <<" ", "N", "o", "t", "-", "G", "O", "O", "D", "!", "\n">>,
      W_today,
      W_good \o SP \o W_good \o SP \o W_today,
      W_not \o SP \o W_good \o SP \o W_today,
      ExampleText }

Texts == WordTexts(MaxWords) \cup ExtraTexts

\* a numeric CSV field: <<n>> when float() parses it to n/RawScale, <<>>
\* when float() raises
Num(n) == <<n>>

Unparseable == <<>>

Row(t, v, a, d) == [term |-> t, valence |-> v, arousal |-> a, dominance |-> d]

FileMissing == [exists |-> FALSE, rows |-> <<>>]

FileHeaderOnly == [exists |-> TRUE, rows |-> <<>>]

FileAllSkipped ==
    [exists |-> TRUE,
     rows |-> << Row(<<>>, Num(10), Num(10), Num(10)),
                 Row(<<"1", "2", "3">>, Num(10), Num(10), Num(10)),
                 Row(W_good, Num(10), Unparseable, Num(10)) >>]

FileMain ==
    [exists |-> TRUE,
     rows |-> << Row(W_not \o SP \o W_good, Num(-80), Num(20), Num(-40)),
                 Row(W_good, Num(-60), Num(-60), Num(-60)),
                 Row(W_today, Num(60), Num(60), Num(60)) >>]

FileRich ==
    [exists |-> TRUE,
     rows |-> << Row(<<" ", "N", "o", "t", "-", "G", "o", "o", "d", " ">>,
                     Num(50), Num(-60), Num(60)),
                 Row(W_good, Num(150), Num(-100), Num(100)),
                 Row(W_good, Num(0), Num(-100), Num(100)),
                 Row(W_not \o SP \o W_good \o SP \o W_today \o SP \o W_not \o SP \o W_good,
                     Num(10), Num(10), Num(10)),
                 Row(W_not \o SP \o W_good \o SP \o W_today,
                     Num(20), Num(40), Num(60)),
                 Row(W_is \o SP \o W_not \o SP \o W_good \o SP \o W_today,
                     Num(-20), Num(-150), Num(30)),
                 Row(W_today, Unparseable, Num(0), Num(0)),
                 Row(<<>>, Num(0), Num(0), Num(0)) >>]

LexiconFiles == {FileMissing, FileHeaderOnly, FileAllSkipped, FileMain, FileRich}

\* labels and scores the classifier can report
RawLabels == {"joy", "SADNESS", "unknown_label"}

Probs == {0, 5, 10}

ScoreItems == [label : RawLabels, score : Probs]

RECURSIVE SeqsUpTo(_, _)
SeqsUpTo(S, k) ==
    IF k = 0 THEN {<<>>}
    ELSE LET prev == SeqsUpTo(S, k - 1)
         IN  prev \cup {Append(q, x) : q \in prev, x \in S}

ScoreLists == SeqsUpTo(ScoreItems, MaxScores)

\* s["label"].lower() on the labels above
LowerLabel(l) == IF l = "SADNESS" THEN "sadness" ELSE l

\* ------------------------------------------------------------------------
\* Lexicon loader
\* ------------------------------------------------------------------------
_max_ngram == 4

\* _norm01 on a raw value x/RawScale, result in 1/NormScale
_norm01(x) == Max2(0, Min2(NormScale, x + RawScale))

\* index_by_first[first][L][tuple(toks)] = vad on a defaultdict of
\* defaultdicts of dicts
IndexPut(idx, ptoks, triple) ==
    LET first == ptoks[1]
        L == Len(ptoks)
        byLen == IF first \in DOMAIN idx THEN idx[first] ELSE EmptyMap
        bucket == IF L \in DOMAIN byLen THEN byLen[L] ELSE EmptyMap
    IN  Put(idx, first, Put(byLen, L, Put(bucket, ptoks, triple)))

\* one iteration of `for row in reader`, acc = [term_dict, index_by_first]
LoadRow(acc, row) ==
    LET term_raw == Lower(Strip(row.term))
        ptoks == tokenize(term_raw)
    IN  IF term_raw = <<>> THEN acc
        ELSE IF ptoks = <<>> THEN acc
        ELSE IF row.valence = <<>> \/ row.arousal = <<>> \/ row.dominance = <<>>
             THEN acc
        ELSE LET triple == << _norm01(row.valence[1]), _norm01(row.arousal[1]),
                              _norm01(row.dominance[1]) >>
             IN  [term_dict |-> Put(acc.term_dict, Join(ptoks), triple),
                  index_by_first |->
                      IF Len(ptoks) <= _max_ngram
                      THEN IndexPut(acc.index_by_first, ptoks, triple)
                      ELSE acc.index_by_first]

RECURSIVE LoadRows(_, _)
LoadRows(acc, rows) ==
    IF rows = <<>> THEN acc
    ELSE LoadRows(LoadRow(acc, Head(rows)), Tail(rows))

BuildLexicon(rows) ==
    LoadRows([term_dict |-> EmptyMap, index_by_first |-> EmptyMap], rows)

\* ------------------------------------------------------------------------
\* Emotion -> mood table, blender, VAD -> mood
\* ------------------------------------------------------------------------
Dims == {"valence", "energy", "focus", "danceability", "tempo_pref"}

Mood(v, e, f, d, t) ==
    [valence |-> v, energy |-> e, focus |-> f, danceability |-> d, tempo_pref |-> t]

EMOTION_TO_MOOD ==
    [joy        |-> Mood(9000, 7000, 4000, 7000, 7500),
     love       |-> Mood(8500, 6000, 5000, 6000, 6500),
     admiration |-> Mood(8000, 6000, 6000, 5000, 6500),
     surprise   |-> Mood(7000, 8000, 4000, 6000, 8000),
     anger      |-> Mood(1000, 9000, 3000, 4000, 8500),
     sadness    |-> Mood(1000, 2000, 6000, 3000, 3500),
     fear       |-> Mood(1500, 6000, 5000, 3000, 6000),
     disgust    |-> Mood(2000, 5000, 4000, 3000, 5500),
     optimism   |-> Mood(8000, 6000, 6000, 6000, 6500),
     curiosity  |-> Mood(7000, 5000, 7000, 5000, 5500),
     nervous    |-> Mood(2400, 7900, 3800, 3500, 6500),
     neutral    |-> Mood(5000, 5000, 5000, 5000, 5000)]

DEFAULT_MOOD == Mood(5000, 5000, 5000, 5000, 5000)

\* a.get(k, 0.5)
GetDim(m, k) == IF k \in DOMAIN m THEN m[k] ELSE 5000

\* blend_moods with the weight wa given to b instead of a
blend_moods_swapped(a, b, wa) ==
    LET wb == 10 - wa
    IN  [k \in DOMAIN DEFAULT_MOOD |->
            Round4(GetDim(a, k) * wb + GetDim(b, k) * wa, 10)]

\* blend_moods(a, b, wa) with wa in tenths
blend_moods(a, b, wa) ==
    LET wb == 10 - wa
    IN  [k \in DOMAIN DEFAULT_MOOD |->
            Round4(GetDim(a, k) * wa + GetDim(b, k) * wb, 10)]

\* music_mood_from_vad without the clamp to [0,1] on focus and danceability
music_mood_from_vad_unclamped(v, a, d) ==
    LET focus == (10 * MoodScale - 7 * a) + 2 * d
        danceability == 35 * MoodScale + 45 * a + 20 * Max2(0, v - 5000)
    IN  Mood(v, a, Round4(focus, 10), Round4(danceability, 100), a)

\* music_mood_from_vad on a VAD triple in 1e-4 units
music_mood_from_vad(v, a, d) ==
    LET focus == Max2(0, Min2(10 * MoodScale, (10 * MoodScale - 7 * a) + 2 * d))
        danceability ==
            Max2(0, Min2(100 * MoodScale,
                         35 * MoodScale + 45 * a + 20 * Max2(0, v - 5000)))
    IN  Mood(v, a, Round4(focus, 10), Round4(danceability, 100), a)

\* { s["label"].lower(): float(s["score"]) for s in scores }
RECURSIVE DictOfScores(_, _)
DictOfScores(scores, acc) ==
    IF scores = <<>> THEN acc
    ELSE DictOfScores(Tail(scores),
                      Put(acc, LowerLabel(Head(scores).label), Head(scores).score))

\* sum(emotions.values())
RECURSIVE SumValues(_, _)
SumValues(f, S) ==
    IF S = {} THEN 0
    ELSE LET x == CHOOSE y \in S : TRUE
         IN  f[x] + SumValues(f, S \ {x})

\* for label, prob in emotions.items(): agg[dim] += prob * val
RECURSIVE Accumulate(_, _, _)
Accumulate(emo, labels, agg) ==
    IF labels = {} THEN agg
    ELSE LET label == CHOOSE y \in labels : TRUE
             rest == labels \ {label}
         IN  IF label \notin DOMAIN EMOTION_TO_MOOD
             THEN Accumulate(emo, rest, agg)
             ELSE Accumulate(emo, rest,
                     [dim \in DOMAIN agg |->
                         agg[dim] + emo[label] * EMOTION_TO_MOOD[label][dim]])

\* the projection normalised by the probability of the recognized labels only
MoodFromEmotions_RecognizedOnly(emo) ==
    IF emo = EmptyMap THEN DEFAULT_MOOD
    ELSE LET known == (DOMAIN emo) \cap (DOMAIN EMOTION_TO_MOOD)
             total == SumValues(emo, known)
             totalsum == IF total = 0 THEN ProbScale ELSE total
             agg == Accumulate(emo, DOMAIN emo, [k \in DOMAIN DEFAULT_MOOD |-> 0])
         IN  [dim \in DOMAIN agg |-> Round4(agg[dim], totalsum)]

\* lines 236-247 of infer_text: emotion distribution -> mood
MoodFromEmotions(emo) ==
    IF emo = EmptyMap THEN DEFAULT_MOOD
    ELSE LET total == SumValues(emo, DOMAIN emo)
             totalsum == IF total = 0 THEN ProbScale ELSE total
             agg == Accumulate(emo, DOMAIN emo, [k \in DOMAIN DEFAULT_MOOD |-> 0])
         IN  [dim \in DOMAIN agg |-> Round4(agg[dim], totalsum)]

\* ------------------------------------------------------------------------
\* Phrase scan
\* ------------------------------------------------------------------------
NoHit(idx) == [hit |-> FALSE, L |-> 0, entry |-> <<>>, index |-> idx]

\* the length loop run upwards, from L to top: the shortest phrase wins
RECURSIVE TryLengthsUp(_, _, _, _, _)
TryLengthsUp(tk, pos, L, top, idx) ==
    IF L > top THEN NoHit(idx)
    ELSE IF tk[pos + 1] \notin DOMAIN idx THEN NoHit(idx)
    ELSE LET first == tk[pos + 1]
             slice_t == SubSeq(tk, pos + 1, pos + L)
             byLen == idx[first]
             touched == IF L \in DOMAIN byLen THEN idx
                        ELSE Put(idx, first, Put(byLen, L, EmptyMap))
             bucket == touched[first][L]
         IN  IF slice_t \in DOMAIN bucket
             THEN [hit |-> TRUE, L |-> L, entry |-> bucket[slice_t],
                   index |-> touched]
             ELSE TryLengthsUp(tk, pos, L + 1, top, touched)

TryLengths_ShortestFirst(tk, pos, L, idx) == TryLengthsUp(tk, pos, 1, L, idx)

\* the `for L in range(..., 0, -1)` loop at token position pos (0-based),
\* entered with loop variable L; index is _index_by_first as the loop leaves
\* it (reading a missing length bucket of a defaultdict inserts it)
RECURSIVE TryLengths(_, _, _, _)
TryLengths(tk, pos, L, idx) ==
    IF L < 1 THEN NoHit(idx)
    ELSE IF tk[pos + 1] \notin DOMAIN idx THEN NoHit(idx)
    ELSE LET first == tk[pos + 1]
             slice_t == SubSeq(tk, pos + 1, pos + L)
             byLen == idx[first]
             touched == IF L \in DOMAIN byLen THEN idx
                        ELSE Put(idx, first, Put(byLen, L, EmptyMap))
             bucket == touched[first][L]
         IN  IF slice_t \in DOMAIN bucket
             THEN [hit |-> TRUE, L |-> L, entry |-> bucket[slice_t],
                   index |-> touched]
             ELSE TryLengths(tk, pos, L - 1, touched)

\* lines 173-180: the loop over the match list
RECURSIVE WeightedSums(_, _, _)
WeightedSums(ms, cnt, acc) ==
    IF ms = <<>> THEN acc
    ELSE LET term_key == Head(ms)[1]
             e == Head(ms)[2]
             c == cnt[term_key]
         IN  WeightedSums(Tail(ms), cnt,
                 [sum_v |-> acc.sum_v + e[1] * c,
                  sum_a |-> acc.sum_a + e[2] * c,
                  sum_d |-> acc.sum_d + e[3] * c,
                  sum_w |-> acc.sum_w + c])

\* lines 169-185: the value vad_from_text_gitlab returns for a match list
AggregateVad(ms, cnt) ==
    IF ms = <<>> THEN <<>>
    ELSE LET s == WeightedSums(ms, cnt,
                      [sum_v |-> 0, sum_a |-> 0, sum_d |-> 0, sum_w |-> 0])
             k == MoodScale \div NormScale
         IN  IF s.sum_w = 0 THEN <<>>
             ELSE << Round4(k * s.sum_v, s.sum_w), Round4(k * s.sum_a, s.sum_w),
                     Round4(k * s.sum_d, s.sum_w) >>

\* the source label with the emotions branch tested before the VAD branch
SourceLabel_EmotionsFirst(hasVadMood, hasEmotions) ==
    IF hasEmotions THEN "emotions"
    ELSE IF hasVadMood THEN "VAD-gitlab"
    ELSE "default"

\* the source label of lines 257-269
SourceLabel(hasVadMood, hasEmotions) ==
    IF hasVadMood /\ hasEmotions THEN "blend(emotions,VAD-gitlab)"
    ELSE IF hasVadMood THEN "VAD-gitlab"
    ELSE IF hasEmotions THEN "emotions"
    ELSE "default"

\* the final mood of lines 257-269
FinalMood(fromVad, emo, fromEmotions) ==
    IF fromVad # <<>> /\ emo # EmptyMap
    THEN blend_moods(fromEmotions, fromVad[1], 4)
    ELSE IF fromVad # <<>> THEN fromVad[1]
    ELSE IF emo # EmptyMap THEN fromEmotions
    ELSE DEFAULT_MOOD

\* ------------------------------------------------------------------------
\* State
\* ------------------------------------------------------------------------
VARIABLES
    lexFile,             \* the CSV at GITLAB_VAD_PATH
    _term_dict,          \* module global: phrase string -> VAD
    _index_by_first,     \* module global: first token -> length -> phrase -> VAD
    _hf_pipeline,        \* module global: "None" or "pipeline"
    pc,                  \* position of the call in flight
    text,                \* infer_text local: the stripped input
    emotions,            \* infer_text local
    mood_from_emotions,  \* infer_text local
    toks,                \* vad_from_text_gitlab local
    i,                   \* vad_from_text_gitlab local: scan position (0-based)
    counts,              \* vad_from_text_gitlab local: Counter
    matches,             \* vad_from_text_gitlab local: list of (term_key, entry)
    vad,                 \* infer_text local
    mood_from_vad,       \* infer_text local
    result,              \* the value infer_text returned, <<>> until it returns
    calls,               \* number of calls received
    loads                \* number of times load_gitlab_vad opened and read the file

vars == << lexFile, _term_dict, _index_by_first, _hf_pipeline, pc, text, emotions,
           mood_from_emotions, toks, i, counts, matches, vad, mood_from_vad,
           result, calls, loads >>

globals == << lexFile, _term_dict, _index_by_first, _hf_pipeline, calls, loads >>

scanLocals == << toks, i, counts, matches >>

Init ==
    /\ lexFile \in LexiconFiles
    /\ _term_dict = EmptyMap
    /\ _index_by_first = EmptyMap
    /\ _hf_pipeline = "None"
    /\ pc = "idle"
    /\ text = <<>>
    /\ emotions = EmptyMap
    /\ mood_from_emotions = DEFAULT_MOOD
    /\ toks = <<>>
    /\ i = 0
    /\ counts = EmptyMap
    /\ matches = <<>>
    /\ vad = <<>>
    /\ mood_from_vad = <<>>
    /\ result = <<>>
    /\ calls = 0
    /\ loads = 0

\* ------------------------------------------------------------------------
\* infer_text, step by step
\* ------------------------------------------------------------------------
\* lines 220-223: a request arrives; blank text returns the default at once
Receive(t) ==
    /\ pc \in {"idle", "done", "raised"}
    /\ calls < MaxCalls
    /\ calls' = calls + 1
    /\ text' = Strip(t)
    /\ emotions' = EmptyMap
    /\ mood_from_emotions' = DEFAULT_MOOD
    /\ toks' = <<>>
    /\ i' = 0
    /\ counts' = EmptyMap
    /\ matches' = <<>>
    /\ vad' = <<>>
    /\ mood_from_vad' = <<>>
    /\ IF Strip(t) = <<>>
       THEN /\ result' = << [emotions |-> EmptyMap, mood |-> DEFAULT_MOOD,
                             vad |-> <<>>, source |-> "default"] >>
            /\ pc' = "done"
       ELSE /\ result' = <<>>
            /\ pc' = "classify"
    /\ UNCHANGED << lexFile, _term_dict, _index_by_first, _hf_pipeline, loads >>

\* lines 226-228 with get_pipeline (35-46): no pipeline cached and creating
\* one raises, so nlp is None and emotions stays {}
ClassifierUnavailable ==
    /\ pc = "classify"
    /\ _hf_pipeline = "None"
    /\ _hf_pipeline' = "None"
    /\ emotions' = EmptyMap
    /\ pc' = "project"
    /\ UNCHANGED << lexFile, _term_dict, _index_by_first, text, mood_from_emotions,
                    toks, i, counts, matches, vad, mood_from_vad, result, calls,
                    loads >>

\* lines 229-233: the pipeline exists (cached or just created) and the call
\* nlp(text) raises; the except clause leaves emotions = {}
ClassifierRaises ==
    /\ pc = "classify"
    /\ _hf_pipeline' = "pipeline"
    /\ emotions' = EmptyMap
    /\ pc' = "project"
    /\ UNCHANGED << lexFile, _term_dict, _index_by_first, text, mood_from_emotions,
                    toks, i, counts, matches, vad, mood_from_vad, result, calls,
                    loads >>

\* lines 229-231: the pipeline returns a score list
ClassifierReturns(scores) ==
    /\ pc = "classify"
    /\ _hf_pipeline' = "pipeline"
    /\ emotions' = DictOfScores(scores, EmptyMap)
    /\ pc' = "project"
    /\ UNCHANGED << lexFile, _term_dict, _index_by_first, text, mood_from_emotions,
                    toks, i, counts, matches, vad, mood_from_vad, result, calls,
                    loads >>

\* lines 236-247
ProjectEmotions ==
    /\ pc = "project"
    /\ mood_from_emotions' = MoodFromEmotions(emotions)
    /\ pc' = "load"
    /\ UNCHANGED << globals, text, emotions, scanLocals, vad, mood_from_vad, result >>

\* line 140 with load_gitlab_vad (93-131), the lexicon already populated
LoadSkip ==
    /\ pc = "load"
    /\ _term_dict # EmptyMap
    /\ pc' = "tokenize"
    /\ UNCHANGED << globals, text, emotions, mood_from_emotions, scanLocals, vad,
                    mood_from_vad, result >>

\* load_gitlab_vad: open() raises and the exception leaves infer_text
LoadRaises ==
    /\ pc = "load"
    /\ _term_dict = EmptyMap
    /\ ~lexFile.exists
    /\ pc' = "raised"
    /\ UNCHANGED << globals, text, emotions, mood_from_emotions, scanLocals, vad,
                    mood_from_vad, result >>

\* load_gitlab_vad: the file is read and both globals are assigned
LoadBuild ==
    /\ pc = "load"
    /\ _term_dict = EmptyMap
    /\ lexFile.exists
    /\ LET built == BuildLexicon(lexFile.rows)
       IN  /\ _term_dict' = built.term_dict
           /\ _index_by_first' = built.index_by_first
    /\ loads' = loads + 1
    /\ pc' = "tokenize"
    /\ UNCHANGED << lexFile, _hf_pipeline, calls, text, emotions, mood_from_emotions,
                    scanLocals, vad, mood_from_vad, result >>

\* lines 141-149 (and 250-251 when there is no token)
ScanStart ==
    /\ pc = "tokenize"
    /\ toks' = tokenize(text)
    /\ i' = 0
    /\ counts' = EmptyMap
    /\ matches' = <<>>
    /\ vad' = <<>>
    /\ mood_from_vad' = <<>>
    /\ pc' = IF tokenize(text) = <<>> THEN "blend" ELSE "scan"
    /\ UNCHANGED << globals, text, emotions, mood_from_emotions, result >>

\* lines 150-167: one iteration of the while loop
ScanStep ==
    /\ pc = "scan"
    /\ i < Len(toks)
    /\ LET r == TryLengths(toks, i, Min2(_max_ngram, Len(toks) - i), _index_by_first)
       IN  /\ _index_by_first' = r.index
           /\ IF r.hit
              THEN LET term_key == Join(SubSeq(toks, i + 1, i + r.L))
                   IN  /\ counts' = Put(counts, term_key,
                                IF term_key \in DOMAIN counts
                                THEN counts[term_key] + 1 ELSE 1)
                       /\ matches' = Append(matches, << term_key, r.entry >>)
                       /\ i' = i + r.L
              ELSE /\ i' = i + 1
                   /\ UNCHANGED << counts, matches >>
    /\ UNCHANGED << lexFile, _term_dict, _hf_pipeline, calls, loads, pc, text,
                    emotions, mood_from_emotions, toks, vad, mood_from_vad, result >>

\* lines 169-185 and 250-254: the scan is over
Aggregate ==
    /\ pc = "scan"
    /\ i >= Len(toks)
    /\ LET out == AggregateVad(matches, counts)
       IN  /\ vad' = out
           /\ mood_from_vad' =
                 IF out # <<>>
                 THEN << music_mood_from_vad(out[1], out[2], out[3]) >>
                 ELSE <<>>
    /\ pc' = "blend"
    /\ UNCHANGED << globals, text, emotions, mood_from_emotions, scanLocals, result >>

\* lines 257-271
Blend ==
    /\ pc = "blend"
    /\ result' = << [emotions |-> emotions,
                     mood |-> FinalMood(mood_from_vad, emotions, mood_from_emotions),
                     vad |-> vad,
                     source |-> SourceLabel(mood_from_vad # <<>>,
                                            emotions # EmptyMap)] >>
    /\ pc' = "done"
    /\ UNCHANGED << globals, text, emotions, mood_from_emotions, scanLocals, vad,
                    mood_from_vad >>

Next ==
    \/ \E t \in Texts : Receive(t)
    \/ ClassifierUnavailable
    \/ ClassifierRaises
    \/ \E scores \in ScoreLists : ClassifierReturns(scores)
    \/ ProjectEmotions
    \/ LoadSkip
    \/ LoadRaises
    \/ LoadBuild
    \/ ScanStart
    \/ ScanStep
    \/ Aggregate
    \/ Blend

Spec == Init /\ [][Next]_vars

\* ------------------------------------------------------------------------
\* Vocabulary of the properties
\* ------------------------------------------------------------------------
\* the call in flight has left the phrase scan
ScanOver == pc \in {"blend", "done"} /\ text # <<>>

\* the call in flight has computed the classifier-path mood
Projected == pc \in {"load", "tokenize", "scan", "blend", "done"} /\ text # <<>>

Returned == pc = "done" /\ result # <<>>

K_good == W_good

K_today == W_today

K_not_good == W_not \o SP \o W_good

\* the distinct phrases of a match list
DistinctPhrases(ms) == {ms[k][1] : k \in DOMAIN ms}

\* number of positions at which phrase p matched
MatchCount(ms, p) == Cardinality({k \in DOMAIN ms : ms[k][1] = p})

\* the VAD triple recorded for phrase p
PhraseVad(ms, p) == ms[CHOOSE k \in DOMAIN ms : ms[k][1] = p][2]

\* sum over the distinct phrases of component c times the match count
RECURSIVE DistinctSum(_, _, _)
DistinctSum(ms, P, c) ==
    IF P = {} THEN 0
    ELSE LET p == CHOOSE q \in P : TRUE
         IN  (IF c = 0 THEN 1 ELSE PhraseVad(ms, p)[c]) * MatchCount(ms, p)
             + DistinctSum(ms, P \ {p}, c)

\* sum(value_p * count_p) / sum(count_p), rounded to 4 decimals
DistinctMean(ms, c) ==
    Round4((MoodScale \div NormScale) * DistinctSum(ms, DistinctPhrases(ms), c),
           DistinctSum(ms, DistinctPhrases(ms), 0))

\* phrase p (a token sequence) is in the nested index idx
Indexed(idx, p) ==
    /\ p # <<>>
    /\ p[1] \in DOMAIN idx
    /\ Len(p) \in DOMAIN idx[p[1]]
    /\ p \in DOMAIN idx[p[1]][Len(p)]

\* the lengths L for which tokens[i..i+L) is an indexed phrase
HitLengths == {L \in 1..Min2(4, Len(toks) - i) :
                  Indexed(_index_by_first, SubSeq(toks, i + 1, i + L))}

MaxOf(S) == CHOOSE m \in S : \A x \in S : x <= m

\* number of tokens consumed by the recorded matches
RECURSIVE TokensMatched(_)
TokensMatched(ms) ==
    IF ms = <<>> THEN 0
    ELSE Len(tokenize(Head(ms)[1])) + TokensMatched(Tail(ms))

Recognized(emo) == (DOMAIN emo) \cap (DOMAIN EMOTION_TO_MOOD)

\* ------------------------------------------------------------------------
\* Properties
\* ------------------------------------------------------------------------
\* C1: whenever the phrase scan found a match, each component of the VAD
\* triple it returns is the count-weighted mean over the distinct matched
\* phrases, sum(value_p * count_p) / sum(count_p) rounded to 4 decimals, each
\* distinct phrase counted once; "good good today" with good = 0.2 and
\* today = 0.8 gives 0.4 in every component.
C1_DistinctWeightedMean ==
    (ScanOver /\ matches # <<>>) =>
        /\ vad = << DistinctMean(matches, 1), DistinctMean(matches, 2),
                    DistinctMean(matches, 3) >>
        /\ (lexFile = FileMain /\ toks = << W_good, W_good, W_today >>)
              => vad = << 4000, 4000, 4000 >>

\* C2: the source label of every returned result is one of "default",
\* "lexicon", "classifier", "blend": "blend" when both paths are present,
\* "lexicon" when only the lexical path is, "classifier" when only the
\* classifier path is, "default" otherwise.
C2_SpecSourceLabels ==
    Returned =>
        result[1].source =
            IF result[1].vad # <<>> /\ result[1].emotions # EmptyMap THEN "blend"
            ELSE IF result[1].vad # <<>> THEN "lexicon"
            ELSE IF result[1].emotions # EmptyMap THEN "classifier"
            ELSE "default"

\* C2 (amended): the source label of every returned result is one of
\* "default", "VAD-gitlab", "emotions", "blend(emotions,VAD-gitlab)":
\* the blend label when both paths are present, "VAD-gitlab" when only the
\* lexical path is, "emotions" when only the classifier path is, "default"
\* when neither is or the text is blank.
C2_CodeSourceLabels ==
    Returned =>
        /\ result[1].source =
              IF result[1].vad # <<>> /\ result[1].emotions # EmptyMap
              THEN "blend(emotions,VAD-gitlab)"
              ELSE IF result[1].vad # <<>> THEN "VAD-gitlab"
              ELSE IF result[1].emotions # EmptyMap THEN "emotions"
              ELSE "default"
        /\ text = <<>> => result[1].source = "default"
        /\ result[1].vad = vad
        /\ result[1].emotions = emotions

C2_Witness ==
    /\ Returned
    /\ vad # <<>>
    /\ emotions # EmptyMap
    /\ result[1].source = "blend(emotions,VAD-gitlab)"

\* C3: for non-blank text the returned mood follows the four-case policy:
\* both paths present -> per dimension round(0.4 * classifier + 0.6 * lexical, 4);
\* only lexical -> the lexical mood; only classifier -> the classifier mood;
\* neither -> the all-0.5 default.  Lexical all 1 and classifier all 0 blend
\* to 0.6 in every dimension.
C3_BlenderPolicy ==
    /\ (Returned /\ text # <<>>) =>
          LET lexical == vad # <<>>
              classifier == emotions # EmptyMap
              mood == result[1].mood
          IN  /\ lexical <=> mood_from_vad # <<>>
              /\ (lexical /\ classifier) =>
                    \A dim \in Dims :
                       mood[dim] = Round4(4 * mood_from_emotions[dim]
                                          + 6 * mood_from_vad[1][dim], 10)
              /\ (lexical /\ ~classifier) => mood = mood_from_vad[1]
              /\ (~lexical /\ classifier) => mood = mood_from_emotions
              /\ (~lexical /\ ~classifier) => mood = Mood(5000, 5000, 5000, 5000, 5000)
    /\ blend_moods(Mood(0, 0, 0, 0, 0),
                   Mood(10000, 10000, 10000, 10000, 10000), 4)
          = Mood(6000, 6000, 6000, 6000, 6000)

C3_Witness ==
    /\ Returned
    /\ vad # <<>>
    /\ emotions # EmptyMap
    /\ \A dim \in Dims : mood_from_emotions[dim] # mood_from_vad[1][dim]
    /\ result[1].mood \notin {mood_from_emotions, mood_from_vad[1]}

\* C4: infer_text has no failing outcome: every call completes and returns a
\* result with the fields emotions, mood, vad and source; no error escapes.
C4_NoFailingOutcome ==
    /\ pc # "raised"
    /\ pc = "done" =>
          /\ result # <<>>
          /\ DOMAIN result[1] = {"emotions", "mood", "vad", "source"}

\* C5: the scan is greedy longest-match without overlap: at scan position i
\* the step records the longest indexed phrase of length L in 1..min(4, n-i)
\* equal to tokens[i..i+L) and resumes at i+L, records nothing and resumes at
\* i+1 when there is none, and the recorded matches never cover more tokens
\* than the scan has passed; with "not good" and "good" indexed, scanning
\* "this is not good today" never records "good".
C5_GreedyLongestMatch ==
    [][ (pc = "scan" /\ i < Len(toks)) =>
          /\ IF HitLengths = {}
             THEN i' = i + 1 /\ matches' = matches /\ counts' = counts
             ELSE LET L == MaxOf(HitLengths)
                      phrase == SubSeq(toks, i + 1, i + L)
                  IN  /\ i' = i + L
                      /\ matches' = Append(matches,
                            << Join(phrase), _index_by_first[phrase[1]][L][phrase] >>)
                      /\ counts'[Join(phrase)] = MatchCount(matches', Join(phrase))
          /\ TokensMatched(matches') <= i'
          /\ i' <= Len(toks)
          /\ (toks = tokenize(ExampleText) /\ Indexed(_index_by_first, << W_not, W_good >>))
                => \A k \in DOMAIN matches' : matches'[k][1] # K_good
      ]_vars

C5_Witness ==
    /\ pc = "scan"
    /\ lexFile = FileRich
    /\ toks = << W_not, W_good, W_today >>
    /\ Indexed(_index_by_first, << W_not, W_good >>)
    /\ Indexed(_index_by_first, << W_not, W_good, W_today >>)
    /\ i = 3
    /\ matches = << << K_not_good \o SP \o K_today, << 120, 140, 160 >> >> >>

\* C6: the emotion projection returns the all-0.5 default mood whenever the
\* distribution is empty or its probabilities sum to zero.
C6_ZeroSumGivesDefault ==
    (Projected /\ (emotions = EmptyMap \/ SumValues(emotions, DOMAIN emotions) = 0))
        => mood_from_emotions = Mood(5000, 5000, 5000, 5000, 5000)

\* C7: the lexicon source is read and the global index assigned at most once
\* per process, whatever the sequence of inference calls.
C7_LoadedAtMostOnce == loads <= 1

\* C8: for a non-empty distribution with a positive probability sum every
\* mood dimension is round(sum over recognized labels of prob * table value /
\* sum of prob over all labels, 4); {"joy": 0.5, "unknown_label": 0.5} yields
\* in every dimension exactly half of what {"joy": 1.0} yields.
C8_UnrecognizedDilutes ==
    /\ (Projected /\ emotions # EmptyMap /\ SumValues(emotions, DOMAIN emotions) > 0) =>
          \A dim \in Dims :
             mood_from_emotions[dim] =
                Round4(SumValues([l \in Recognized(emotions) |->
                                     emotions[l] * EMOTION_TO_MOOD[l][dim]],
                                 Recognized(emotions)),
                       SumValues(emotions, DOMAIN emotions))
    /\ (Projected /\ emotions = [l \in {"joy", "unknown_label"} |-> 5]) =>
          \A dim \in Dims :
             2 * mood_from_emotions[dim] = MoodFromEmotions([l \in {"joy"} |-> 10])[dim]

C8_Witness ==
    /\ pc = "load"
    /\ emotions = [l \in {"joy", "unknown_label"} |-> 5]
    /\ mood_from_emotions = Mood(4500, 3500, 2000, 3500, 3750)

\* C9: once the lexicon index has been built no step of an inference call
\* changes the flat phrase mapping or the nested index (same keys at every
\* level, same values).
C9_IndexReadOnly ==
    [][ _term_dict # EmptyMap =>
           /\ _term_dict' = _term_dict
           /\ _index_by_first' = _index_by_first ]_vars

\* C10: every returned mood has exactly the five dimensions valence, energy,
\* focus, danceability and tempo_pref, each in [0,1], given lexicon VAD
\* components in [0,1] and classifier probabilities in [0,1].
C10_MoodInUnitInterval ==
    (/\ Returned
     /\ \A key \in DOMAIN _term_dict :
           \A c \in 1..3 : _term_dict[key][c] \in 0..NormScale
     /\ \A l \in DOMAIN emotions : emotions[l] \in 0..ProbScale)
    => /\ DOMAIN result[1].mood = Dims
       /\ \A dim \in Dims : result[1].mood[dim] \in 0..MoodScale

C10_Witness ==
    /\ Returned
    /\ lexFile = FileRich
    /\ toks = << W_good >>
    /\ emotions = EmptyMap
    /\ result[1].mood = Mood(5000, 0, 10000, 3500, 0)

====
